---- MODULE Spec2Model ----
(***************************************************************************)
(* Wire-harness analyzer (src/gui.py, class HarnessAnalyzer, and the older  *)
(* src/harness_analyzer.py).  The harness is an undirected networkx graph   *)
(* with typed nodes and attributed edges; the operations are pure functions *)
(* of that graph, except the hierarchical diameter estimate, whose junction *)
(* loop is stepped one junction at a time, and _compute_junction_hierarchy, *)
(* which writes a node attribute.                                           *)
(*                                                                          *)
(* Units.  Lengths are integers in tenths of a metre (0.5 m = 5).  Wire     *)
(* diameters are integers in hundredths of a millimetre (1.29 mm = 129).    *)
(* The code converts between a diameter d and an area (d/2)^2*pi and back   *)
(* with 2*sqrt(a/pi); in real arithmetic area = (pi/4)*d^2, so areas are    *)
(* carried in units of pi/4 * (0.01 mm)^2, i.e. as the SQUARE of the        *)
(* diameter, and a stored diameter is represented by its square.  Order and *)
(* equality of diameters are order and equality of the squares.  IEEE       *)
(* rounding of the float code is not modelled.                              *)
(***************************************************************************)
EXTENDS Integers, Sequences, FiniteSets, TLC

VARIABLES harness_graph, pc, segment_diameters, space_utilization,
          junction_order, idx, result

vars == <<harness_graph, pc, segment_diameters, space_utilization,
          junction_order, idx, result>>

(***************************************************************************)
(* Bounds of the generated graphs.                                          *)
(***************************************************************************)
NumNodes == 3
MaxEdges == 3

\* An attribute that the edge's data dict does not contain.
Absent == -1
\* parent=None of the root call of dfs, and the None path of a no-path result.
None == 0

Range(s) == {s[i] : i \in 1..Len(s)}

(***************************************************************************)
(* The graph: nx.Graph() filled by add_nodes_from(nodes) and then           *)
(* add_edges_from(edges).  nodes is the insertion-ordered node list, type   *)
(* the "type" attribute, edges the edge list in insertion order, each with  *)
(* its data dict (gauge, length, and signals as the LENGTH of the list).    *)
(* downstream_junctions is the node attribute of that name, a dict from the *)
(* nodes that have it to its value.                                         *)
(***************************************************************************)
Edge(u, v, g, l, s) == [u |-> u, v |-> v, gauge |-> g, length |-> l, signals |-> s]

\* harness_graph.neighbors(n): adjacency in insertion order of the edges.
RECURSIVE NeighborsFrom(_, _, _)
NeighborsFrom(edges, n, i) ==
    IF i > Len(edges) THEN <<>>
    ELSE LET e == edges[i]
             rest == NeighborsFrom(edges, n, i + 1)
         IN  IF e.u = n THEN <<e.v>> \o rest
             ELSE IF e.v = n THEN <<e.u>> \o rest
             ELSE rest

Neighbors(G, n) == NeighborsFrom(G.edges, n, 1)

has_edge(G, a, b) == \E i \in 1..Len(G.edges) :
    \/ G.edges[i].u = a /\ G.edges[i].v = b
    \/ G.edges[i].u = b /\ G.edges[i].v = a

\* harness_graph[a][b]: the data dict of the edge between a and b.
EdgeData(G, a, b) ==
    LET i == CHOOSE i \in 1..Len(G.edges) :
                 \/ G.edges[i].u = a /\ G.edges[i].v = b
                 \/ G.edges[i].u = b /\ G.edges[i].v = a
    IN  G.edges[i]

\* harness_graph.edges(): for each node in node order, for each neighbour in
\* adjacency order, the pair (node, neighbour) unless the neighbour was
\* already walked as a node.  Every edge is reported once, keyed from the
\* endpoint that comes first in node order.
RECURSIVE EdgesViewFrom(_, _, _)
EdgesViewFrom(G, i, seen) ==
    IF i > Len(G.nodes) THEN <<>>
    ELSE LET n == G.nodes[i]
             nb == Neighbors(G, n)
             mine == SelectSeq(nb, LAMBDA x : x \notin seen)
         IN  [k \in 1..Len(mine) |-> <<n, mine[k]>>]
                 \o EdgesViewFrom(G, i + 1, seen \cup {n})

EdgesView(G) == EdgesViewFrom(G, 1, {})

IsJunction(G, n) == G.type[n] \in {"junction", "sub_junction"}

\* [node for node, data in nodes(data=True) if type in [junction, sub_junction]]
junction_nodes(G) == SelectSeq(G.nodes, LAMBDA n : IsJunction(G, n))

(***************************************************************************)
(* get_downstream_edges: depth-first traversal with a visited set shared by *)
(* the whole traversal and the parent excluded.                             *)
(***************************************************************************)
\* Mutant of dfs: the edge is recorded before the visited test.
RECURSIVE dfs_RecordBeforeVisitedTest(_, _, _, _, _)
dfs_RecordBeforeVisitedTest(G, current_node, parent, i, st) ==
    LET adj == Neighbors(G, current_node) IN
    IF i > Len(adj) THEN st
    ELSE LET neighbor == adj[i]
             recorded == [st EXCEPT !.edges = Append(st.edges, <<current_node, neighbor>>)]
         IN  IF neighbor = parent
             THEN dfs_RecordBeforeVisitedTest(G, current_node, parent, i + 1, st)
             ELSE IF neighbor \notin st.visited
             THEN dfs_RecordBeforeVisitedTest(G, current_node, parent, i + 1,
                      dfs_RecordBeforeVisitedTest(G, neighbor, current_node, 1,
                          [recorded EXCEPT !.visited = st.visited \cup {neighbor}]))
             ELSE dfs_RecordBeforeVisitedTest(G, current_node, parent, i + 1, recorded)

RECURSIVE dfs(_, _, _, _, _)
dfs(G, current_node, parent, i, st) ==
    LET adj == Neighbors(G, current_node) IN
    IF i > Len(adj) THEN st
    ELSE LET neighbor == adj[i] IN
         IF neighbor # parent /\ neighbor \notin st.visited
         THEN dfs(G, current_node, parent, i + 1,
                  dfs(G, neighbor, current_node, 1,
                      [visited |-> st.visited \cup {neighbor},
                       edges   |-> Append(st.edges, <<current_node, neighbor>>)]))
         ELSE dfs(G, current_node, parent, i + 1, st)

get_downstream_edges(G, node) ==
    dfs(G, node, None, 1, [visited |-> {node}, edges |-> <<>>]).edges

(***************************************************************************)
(* estimate_bundle_diameter.                                                *)
(***************************************************************************)
\* gauge_to_diameter (AWG to mm), in hundredths of a millimetre.
gauge_to_diameter == (16 :> 129) @@ (18 :> 102) @@ (20 :> 81) @@ (22 :> 64) @@ (24 :> 51)

\* gauge_to_diameter.get(gauge, 0.8)
WireDiameter(gauge) ==
    IF gauge \in DOMAIN gauge_to_diameter THEN gauge_to_diameter[gauge] ELSE 80

\* Mutant of DictAfterGet: the default is stored, as dict.setdefault does.
DictAfterGet_SetDefault(e) == [e EXCEPT !.gauge = IF @ = Absent THEN 20 ELSE @]

\* The data dict after data.get("gauge", 20) and data.get("signals", [1]):
\* dict.get returns the default and stores nothing.
DictAfterGet(e) == e

\* The graph after the loop over harness_graph.edges(data=True) of the
\* whole-graph branches, which reads every data dict with get.
GraphAfterEstimate(G) ==
    [G EXCEPT !.edges = [i \in 1..Len(G.edges) |-> DictAfterGet(G.edges[i])]]

\* data.get("gauge", 20)
GaugeOrDefault(e) == IF e.gauge = Absent THEN 20 ELSE e.gauge

\* len(data.get("signals", [1]))
num_signals(e) == IF e.signals = Absent THEN 1 ELSE e.signals

\* (diameter/2)**2 * np.pi, in units of pi/4: the square of the diameter.
AreaOfDiameter(d) == d * d

\* segment_area = num_signals * (wire_diameter/2)**2 * np.pi, and the stored
\* 2*sqrt(segment_area/pi), represented by its square.
segment_area(e) == num_signals(e) * AreaOfDiameter(WireDiameter(GaugeOrDefault(e)))

\* The loop of lines 369-376 (and 449-458, and harness_analyzer.py 85-94):
\* one entry per edge, under the key harness_graph.edges() reports.
BaseDiameters(G) ==
    [k \in Range(EdgesView(G)) |-> segment_area(EdgeData(G, k[1], k[2]))]

\* dict.get(k, default)
Get(d, k, default) == IF k \in DOMAIN d THEN d[k] ELSE default

\* d[k] = x
Put(d, k, x) == (k :> x) @@ d

\* (diameter/2)**2 * np.pi of a diameter stored in segment_diameters: the stored
\* value is already the square, so the area in units of pi/4 is the value.
AreaOfStored(x) == x

\* Lines 390-395: the areas of the downstream edges that are keys of
\* segment_diameters in the orientation the traversal reports.
RECURSIVE DownstreamAreaFrom(_, _, _)
DownstreamAreaFrom(sd, downstream_edges, i) ==
    IF i > Len(downstream_edges) THEN 0
    ELSE (IF downstream_edges[i] \in DOMAIN sd
          THEN AreaOfStored(sd[downstream_edges[i]]) ELSE 0)
         + DownstreamAreaFrom(sd, downstream_edges, i + 1)

total_downstream_area(sd, downstream_edges) == DownstreamAreaFrom(sd, downstream_edges, 1)

\* Lines 398-404: the edges touching the junction, each turned around.
incoming_edges(G, junction) ==
    LET touching == SelectSeq(EdgesView(G),
                              LAMBDA k : k[1] = junction \/ k[2] = junction)
    IN  [i \in 1..Len(touching) |->
            LET u == touching[i][1]
                v == touching[i][2]
                other_node == IF u = junction THEN v ELSE u
            IN  IF u = junction THEN <<other_node, junction>>
                                ELSE <<junction, other_node>>]

\* Mutant of is_downstream: the edge is compared in one orientation only.
is_downstream_SameOrientation(edge, downstream_edges) ==
    \E i \in 1..Len(downstream_edges) :
        edge[1] = downstream_edges[i][1] /\ edge[2] = downstream_edges[i][2]

\* Lines 411-415.
is_downstream(edge, downstream_edges) ==
    \E i \in 1..Len(downstream_edges) :
        \/ edge[1] = downstream_edges[i][1] /\ edge[2] = downstream_edges[i][2]
        \/ edge[1] = downstream_edges[i][2] /\ edge[2] = downstream_edges[i][1]

\* A utilization value (base_area / total_area) * 100 is kept as the exact
\* fraction num/den.
Utilization(base_area, total_area) == [num |-> 100 * base_area, den |-> total_area]
FullUtilization == [num |-> 100, den |-> 1]

\* Mutant of CombinedArea: the edge's own area is left out.
CombinedArea_DownstreamOnly(base_area, downstream_area) == downstream_area

\* Lines 420-425: the area the edge is given at this junction.
CombinedArea(base_area, downstream_area) == base_area + downstream_area

\* Mutant of UpdateEdge: without the test of line 426, a zero total area is
\* stored as the diameter under both keys.
UpdateEdge_NoZeroAreaTest(m, edge, downstream_edges, downstream_area) ==
    LET u == edge[1]
        v == edge[2]
        base_area == AreaOfStored(Get(m.sd, <<u, v>>, Get(m.sd, <<v, u>>, 0)))
        total_area == CombinedArea(base_area, downstream_area)
    IN  IF is_downstream(edge, downstream_edges) THEN m
        ELSE IF total_area > 0
        THEN [sd |-> Put(Put(m.sd, <<u, v>>, total_area), <<v, u>>, total_area),
              su |-> Put(Put(m.su, <<u, v>>, Utilization(base_area, total_area)),
                         <<v, u>>, Utilization(base_area, total_area))]
        ELSE [m EXCEPT !.sd = Put(Put(m.sd, <<u, v>>, total_area), <<v, u>>, total_area)]

\* Lines 407-435 for one incoming edge; m = [sd, su] are the two maps.
UpdateEdge(m, edge, downstream_edges, downstream_area) ==
    LET u == edge[1]
        v == edge[2]
        base_diameter == Get(m.sd, <<u, v>>, Get(m.sd, <<v, u>>, 0))
        base_area == AreaOfStored(base_diameter)
        total_area == CombinedArea(base_area, downstream_area)
    IN  IF is_downstream(edge, downstream_edges) THEN m
        ELSE IF total_area > 0
        THEN [sd |-> Put(Put(m.sd, <<u, v>>, total_area), <<v, u>>, total_area),
              su |-> Put(Put(m.su, <<u, v>>, Utilization(base_area, total_area)),
                         <<v, u>>, Utilization(base_area, total_area))]
        ELSE m

RECURSIVE UpdateEdgesFrom(_, _, _, _, _)
UpdateEdgesFrom(m, incoming, i, downstream_edges, downstream_area) ==
    IF i > Len(incoming) THEN m
    ELSE UpdateEdgesFrom(UpdateEdge(m, incoming[i], downstream_edges, downstream_area),
                         incoming, i + 1, downstream_edges, downstream_area)

\* One iteration of the junction loop, lines 383-435.
JunctionStep(G, m, junction) ==
    LET downstream_edges == get_downstream_edges(G, junction)
    IN  UpdateEdgesFrom(m, incoming_edges(G, junction), 1, downstream_edges,
                        total_downstream_area(m.sd, downstream_edges))

\* sorted(junction_nodes, key=lambda j: len(get_downstream_edges(j))):
\* a stable sort, ascending.
RECURSIVE InsertByKey(_, _, _)
InsertByKey(G, sorted, j) ==
    IF sorted = <<>> THEN <<j>>
    ELSE IF Len(get_downstream_edges(G, j)) < Len(get_downstream_edges(G, Head(sorted)))
         THEN <<j>> \o sorted
         ELSE <<Head(sorted)>> \o InsertByKey(G, Tail(sorted), j)

RECURSIVE SortedFrom(_, _, _)
SortedFrom(G, js, i) ==
    IF i = 0 THEN <<>>
    ELSE InsertByKey(G, SortedFrom(G, js, i - 1), js[i])

\* The maps after the junctions junction_order[1..n] have been processed.
RECURSIVE AfterJunctions(_, _, _)
AfterJunctions(G, order, n) ==
    IF n = 0 THEN [sd |-> BaseDiameters(G), su |-> <<>>]
    ELSE JunctionStep(G, AfterJunctions(G, order, n - 1), order[n])

\* Lines 437-443: the default utilization, only when no value was calculated.
WithDefaultUtilization(m) ==
    IF DOMAIN m.su = {} THEN [m EXCEPT !.su = [k \in DOMAIN m.sd |-> FullUtilization]]
    ELSE m

\* estimate_bundle_diameter(consider_hierarchy=True): (segment_diameters,
\* space_utilization).
estimate_bundle_diameter_hierarchy(G) ==
    LET order == SortedFrom(G, junction_nodes(G), Len(junction_nodes(G)))
    IN  WithDefaultUtilization(AfterJunctions(G, order, Len(order)))

\* estimate_bundle_diameter(path): lines 347-361.  harness_graph[u][v]["gauge"]
\* raises KeyError when the edge has no gauge.  The value is the square of
\* the returned bundle diameter.
RECURSIVE PathAreaFrom(_, _, _)
PathAreaFrom(G, path, i) ==
    IF i >= Len(path) THEN 0
    ELSE (IF has_edge(G, path[i], path[i + 1])
          THEN AreaOfDiameter(WireDiameter(EdgeData(G, path[i], path[i + 1]).gauge))
          ELSE 0)
         + PathAreaFrom(G, path, i + 1)

estimate_bundle_diameter_path(G, path) ==
    IF \E i \in 1..(Len(path) - 1) :
           has_edge(G, path[i], path[i + 1])
           /\ EdgeData(G, path[i], path[i + 1]).gauge = Absent
    THEN [kind |-> "KeyError"]
    ELSE [kind |-> "ok", value |-> PathAreaFrom(G, path, 1)]

(***************************************************************************)
(* find_optimal_path: nx.dijkstra_path and nx.dijkstra_path_length, both    *)
(* networkx's _dijkstra_multisource from the one source.                    *)
(***************************************************************************)
\* Mutant of EdgeWeight: the weight attribute is not read.
EdgeWeight_Unit(e, weight) == 1

\* The weight function of the attribute name: data.get(weight, 1).
EdgeWeight(e, weight) == IF weight = "length" THEN e.length ELSE 1

\* heappop: the least (distance, push counter, node) of the fringe.
PopMin(fringe) ==
    CHOOSE x \in fringe : \A y \in fringe :
        x[1] < y[1] \/ (x[1] = y[1] /\ x[2] <= y[2])

\* The loop over G[v].items() of a node v just given its final distance.
RECURSIVE Relax(_, _, _, _, _)
Relax(G, weight, v, i, st) ==
    LET adj == Neighbors(G, v) IN
    IF i > Len(adj) \/ st.error # "" THEN st
    ELSE LET u == adj[i]
             vu_dist == st.dist[v] + EdgeWeight(EdgeData(G, v, u), weight)
         IN  IF u \in DOMAIN st.dist
             THEN IF vu_dist < st.dist[u]
                  THEN [st EXCEPT !.error = "ValueError"]
                  ELSE Relax(G, weight, v, i + 1, st)
             ELSE IF u \notin DOMAIN st.seen \/ vu_dist < st.seen[u]
             THEN Relax(G, weight, v, i + 1,
                        [st EXCEPT !.seen = Put(st.seen, u, vu_dist),
                                   !.fringe = st.fringe \cup {<<vu_dist, st.c, u>>},
                                   !.c = st.c + 1,
                                   !.paths = Put(st.paths, u, Append(st.paths[v], u))])
             ELSE Relax(G, weight, v, i + 1, st)

RECURSIVE DijkstraLoop(_, _, _, _)
DijkstraLoop(G, weight, target, st) ==
    IF st.fringe = {} \/ st.error # "" THEN st
    ELSE LET top == PopMin(st.fringe)
             d == top[1]
             v == top[3]
             popped == [st EXCEPT !.fringe = st.fringe \ {top}]
         IN  IF v \in DOMAIN st.dist THEN DijkstraLoop(G, weight, target, popped)
             ELSE LET fixed == [popped EXCEPT !.dist = Put(st.dist, v, d)]
                  IN  IF v = target THEN fixed
                      ELSE DijkstraLoop(G, weight, target, Relax(G, weight, v, 1, fixed))

_dijkstra_multisource(G, source, target, weight) ==
    DijkstraLoop(G, weight, target,
                 [dist |-> <<>>, seen |-> (source :> 0), fringe |-> {<<0, 0, source>>},
                  c |-> 1, paths |-> (source :> <<source>>), error |-> ""])

\* nx.dijkstra_path followed by nx.dijkstra_path_length, with what each raises.
Raised(exc) == [kind |-> "raise", exc |-> exc]

dijkstra_path(G, source, target, weight) ==
    IF source \notin Range(G.nodes) THEN Raised("NodeNotFound")
    ELSE IF target = source THEN [kind |-> "ok", value |-> <<source>>]
    ELSE LET st == _dijkstra_multisource(G, source, target, weight)
         IN  IF st.error # "" THEN Raised(st.error)
             ELSE IF target \notin DOMAIN st.dist THEN Raised("NetworkXNoPath")
             ELSE [kind |-> "ok", value |-> st.paths[target]]

dijkstra_path_length(G, source, target, weight) ==
    IF source \notin Range(G.nodes) THEN Raised("NodeNotFound")
    ELSE IF target = source THEN [kind |-> "ok", value |-> 0]
    ELSE LET st == _dijkstra_multisource(G, source, target, weight)
         IN  IF st.error # "" THEN Raised(st.error)
             ELSE IF target \notin DOMAIN st.dist THEN Raised("NetworkXNoPath")
             ELSE [kind |-> "ok", value |-> st.dist[target]]

\* Mutant of Caught: the except clause catches nothing.
Caught_Nothing(exc) == FALSE

\* The exceptions the except clause of find_optimal_path catches.
Caught(exc) == exc = "NetworkXNoPath"

\* Mutant of find_optimal_path: weight is not handed to nx.dijkstra_path.
find_optimal_path_PathUnweighted(G, source, target, weight) ==
    LET path == dijkstra_path(G, source, target, "weight")
        length == dijkstra_path_length(G, source, target, weight)
        failed == IF path.kind = "raise" THEN path ELSE length
    IN  IF path.kind = "ok" /\ length.kind = "ok"
        THEN [kind |-> "ok", path |-> path.value, length |-> length.value]
        ELSE IF failed.exc = "NetworkXNoPath" THEN [kind |-> "nopath"]
        ELSE failed

\* find_optimal_path: (path, length), (None, inf), or the exception that
\* leaves the call.
find_optimal_path(G, source, target, weight) ==
    LET path == dijkstra_path(G, source, target, weight)
        length == dijkstra_path_length(G, source, target, weight)
        failed == IF path.kind = "raise" THEN path ELSE length
    IN  IF path.kind = "ok" /\ length.kind = "ok"
        THEN [kind |-> "ok", path |-> path.value, length |-> length.value]
        ELSE IF Caught(failed.exc) THEN [kind |-> "nopath"]
        ELSE failed

(***************************************************************************)
(* calculate_total_length and estimate_installation_complexity.             *)
(* A complexity score is an integer in units of 1/10000, so that            *)
(* length[dm] * diameter[0.01 mm] * 5 is total_length * avg_diameter * 0.5. *)
(***************************************************************************)
RECURSIVE SumLengthsFrom(_, _)
SumLengthsFrom(edges, i) ==
    IF i > Len(edges) THEN 0 ELSE edges[i].length + SumLengthsFrom(edges, i + 1)

\* Mutant of calculate_total_length: the last edge is left out of the sum.
calculate_total_length_AllButLast(G) ==
    SumLengthsFrom(SubSeq(G.edges, 1, Len(G.edges) - 1), 1)

\* sum(data["length"] for _, _, data in harness_graph.edges(data=True))
calculate_total_length(G) == SumLengthsFrom(G.edges, 1)

\* np.sqrt, to the hundredth of a millimetre below (scores are compared with
\* the clamp bounds only, which this rounding does not move across).
RECURSIVE SqrtBetween(_, _, _)
SqrtBetween(n, lo, hi) ==
    IF lo >= hi THEN lo
    ELSE LET mid == (lo + hi + 1) \div 2
         IN  IF mid <= n \div mid THEN SqrtBetween(n, mid, hi)
                               ELSE SqrtBetween(n, lo, mid - 1)

Sqrt(n) == SqrtBetween(n, 0, n)

\* The diameter, in hundredths of a millimetre, that a stored value stands for.
DiameterOf(x) == Sqrt(x)

\* np.mean of an empty list.
NaN == -1

RECURSIVE SumDiameters(_, _)
SumDiameters(d, keys) ==
    IF keys = {} THEN 0
    ELSE LET k == CHOOSE k \in keys : TRUE
         IN  DiameterOf(d[k]) + SumDiameters(d, keys \ {k})

\* np.mean(list(diameters.values()))
MeanDiameter(d) ==
    IF DOMAIN d = {} THEN NaN
    ELSE SumDiameters(d, DOMAIN d) \div Cardinality(DOMAIN d)

\* Python's max(a, b) and min(a, b) of a number a and a float b that may be
\* nan: b is taken only when the comparison with a succeeds.
PyMax(a, b) == IF b # NaN /\ b > a THEN b ELSE a
PyMin(a, b) == IF b # NaN /\ b < a THEN b ELSE a

\* Mutant of Clamp: the upper bound is not applied.
Clamp_NoUpper(complexity) == PyMax(10000, complexity)

\* min(10, max(1, complexity))
Clamp(complexity) == PyMin(100000, PyMax(10000, complexity))

\* (total_length * avg_diameter * 0.5) + (num_junctions * 1.5)
WholeComplexity(total_length, avg_diameter, num_junctions) ==
    IF avg_diameter = NaN THEN NaN
    ELSE total_length * avg_diameter * 5 + num_junctions * 15000

\* Lines 496-505 of gui.py, 131-140 of harness_analyzer.py: the path branch.
\* harness_graph[a][b]["length"] raises KeyError when a-b is no edge.
RECURSIVE PathLengthFrom(_, _, _)
PathLengthFrom(G, path, i) ==
    IF i >= Len(path) THEN 0
    ELSE EdgeData(G, path[i], path[i + 1]).length + PathLengthFrom(G, path, i + 1)

PathComplexity(G, path) ==
    IF \E i \in 1..(Len(path) - 1) : ~has_edge(G, path[i], path[i + 1])
    THEN [kind |-> "KeyError"]
    ELSE LET bundle_diameter == estimate_bundle_diameter_path(G, path)
         IN  IF bundle_diameter.kind # "ok" THEN bundle_diameter
             ELSE [kind |-> "ok",
                   value |-> Clamp(PathLengthFrom(G, path, 1)
                                   * DiameterOf(bundle_diameter.value) * 8)]

\* gui.py estimate_installation_complexity.
estimate_installation_complexity(G, path) ==
    IF path = <<>>
    THEN LET diameters == estimate_bundle_diameter_hierarchy(G).sd
             avg_diameter == IF DOMAIN diameters # {} THEN MeanDiameter(diameters) ELSE 0
             num_junctions == Len(junction_nodes(G))
         IN  [kind |-> "ok",
              value |-> Clamp(WholeComplexity(calculate_total_length(G),
                                              avg_diameter, num_junctions))]
    ELSE PathComplexity(G, path)

\* harness_analyzer.py estimate_installation_complexity: per-segment
\* diameters, and only the nodes of type "junction" counted.
simple_estimate_installation_complexity(G, path) ==
    IF path = <<>>
    THEN LET avg_diameter == MeanDiameter(BaseDiameters(G))
             num_junctions == Len(SelectSeq(G.nodes, LAMBDA n : G.type[n] = "junction"))
         IN  [kind |-> "ok",
              value |-> Clamp(WholeComplexity(calculate_total_length(G),
                                              avg_diameter, num_junctions))]
    ELSE PathComplexity(G, path)

(***************************************************************************)
(* generate_report.  The report is the dict, a function of its keys.  A     *)
(* diameter is reported in hundredths of a millimetre, a length in tenths   *)
(* of a metre, the complexity in 1/10000 and a utilization in hundredths of *)
(* a percent.                                                               *)
(***************************************************************************)
\* round(x, ndigits) to the multiple of unit, ties to the even one; nan stays.
Round(x, unit) ==
    IF x = NaN THEN NaN
    ELSE LET q == x \div unit
             r == x % unit
         IN  IF 2 * r < unit THEN q * unit
             ELSE IF 2 * r > unit THEN (q + 1) * unit
             ELSE IF q % 2 = 0 THEN q * unit ELSE (q + 1) * unit

\* A utilization value in hundredths of a percent, to the one below.
PercentOf(u) == (u.num \div u.den) * 100 + ((u.num % u.den) * 100) \div u.den

RECURSIVE SumPercent(_, _)
SumPercent(su, keys) ==
    IF keys = {} THEN 0
    ELSE LET k == CHOOSE k \in keys : TRUE
         IN  PercentOf(su[k]) + SumPercent(su, keys \ {k})

\* max(diameters.values()); ValueError on an empty dict is the caller's case.
MaxDiameter(d) ==
    DiameterOf(CHOOSE x \in {d[k] : k \in DOMAIN d} : \A k \in DOMAIN d : d[k] <= x)

\* min(utilization.values())
MinUtilization(su) ==
    LET values == {PercentOf(su[k]) : k \in DOMAIN su}
    IN  CHOOSE x \in values : \A y \in values : x <= y

\* Lines 650-664 of gui.py: the fields every report of gui.py has.
ReportFields(G, total_length, avg_diameter, max_diameter, installation_complexity) ==
    ("Total Components" :> Len(G.nodes))
    @@ ("Total Connections" :> Len(G.edges))
    @@ ("Number of Junctions" :> Len(junction_nodes(G)))
    @@ ("Total Wire Length (m)" :> total_length)
    @@ ("Average Bundle Diameter (mm)" :> Round(avg_diameter, 1))
    @@ ("Maximum Bundle Diameter (mm)" :> Round(max_diameter, 1))
    @@ ("Installation Complexity (1-10)" :> Round(installation_complexity, 1000))

\* gui.py generate_report.  With include_utilization false, line 640 calls
\* estimate_bundle_diameter() with its default consider_hierarchy=True and
\* gets the tuple (segment_diameters, space_utilization): a tuple of two
\* items is true, and line 642 asks it for .values(), an AttributeError.
generate_report(G, include_utilization) ==
    IF include_utilization
    THEN LET m == estimate_bundle_diameter_hierarchy(G)
             diameters == m.sd
             utilization == m.su
             avg_diameter == IF DOMAIN diameters # {} THEN MeanDiameter(diameters) ELSE 0
             max_diameter == IF DOMAIN diameters # {} THEN MaxDiameter(diameters) ELSE 0
             avg_utilization ==
                 IF DOMAIN utilization # {}
                 THEN SumPercent(utilization, DOMAIN utilization)
                          \div Cardinality(DOMAIN utilization)
                 ELSE 0
             min_utilization ==
                 IF DOMAIN utilization # {} THEN MinUtilization(utilization) ELSE 0
         IN  [kind |-> "ok",
              report |->
                  ("Average Space Utilization (%)" :> Round(avg_utilization, 10))
                  @@ ("Minimum Space Utilization (%)" :> Round(min_utilization, 10))
                  @@ ReportFields(G, calculate_total_length(G), avg_diameter, max_diameter,
                                  estimate_installation_complexity(G, <<>>).value)]
    ELSE Raised("AttributeError")

\* harness_analyzer.py generate_report: max() of no diameters is a ValueError.
simple_generate_report(G) ==
    LET bundle_diameters == BaseDiameters(G)
    IN  IF DOMAIN bundle_diameters = {} THEN Raised("ValueError")
        ELSE [kind |-> "ok",
              report |->
                  ("Total Components" :> Len(G.nodes))
                  @@ ("Total Connections" :> Len(G.edges))
                  @@ ("Total Wire Length (m)" :> calculate_total_length(G))
                  @@ ("Average Bundle Diameter (mm)" :>
                          Round(MeanDiameter(bundle_diameters), 1))
                  @@ ("Maximum Bundle Diameter (mm)" :>
                          Round(MaxDiameter(bundle_diameters), 1))
                  @@ ("Installation Complexity (1-10)" :>
                          Round(simple_estimate_installation_complexity(G, <<>>).value,
                                1000))]

(***************************************************************************)
(* The graphs.  load_sample_data of harness_analyzer.py builds the 7-node   *)
(* sample, load_sample_data(include_sub_junctions=True) of gui.py the       *)
(* 11-node one; nodes are numbered in insertion order.                      *)
(***************************************************************************)
ECU == 1
Sensor1 == 2
Sensor2 == 3
Actuator1 == 4
Actuator2 == 5
Junction1 == 6
Junction2 == 7
SubJunction1 == 8
SubJunction2 == 9
Sensor3 == 10
Sensor4 == 11

SampleTypes ==
    <<"controller", "sensor", "sensor", "actuator", "actuator", "junction", "junction",
      "sub_junction", "sub_junction", "sensor", "sensor">>

SampleEdges ==
    << Edge(ECU, Junction1, 18, 5, 2),
       Edge(Junction1, Sensor1, 22, 12, 1),
       Edge(Junction1, Junction2, 20, 20, 2),
       Edge(Junction2, Sensor2, 22, 10, 1),
       Edge(Junction2, Actuator1, 16, 15, 1),
       Edge(Junction2, Actuator2, 16, 21, 1) >>

SubJunctionEdges ==
    << Edge(Junction1, SubJunction1, 20, 8, 2),
       Edge(SubJunction1, Sensor3, 24, 6, 2),
       Edge(Junction2, SubJunction2, 20, 7, 2),
       Edge(SubJunction2, Sensor4, 24, 5, 2) >>

\* _compute_junction_hierarchy: each junction gets, as its node attribute
\* downstream_junctions, the list of its neighbours that are junctions.
RECURSIVE AnnotateFrom(_, _, _)
AnnotateFrom(G, junctions, i) ==
    IF i > Len(junctions) THEN G
    ELSE LET junction == junctions[i]
             neighbors == Neighbors(G, junction)
             sub_junctions == SelectSeq(neighbors, LAMBDA n : IsJunction(G, n))
         IN  AnnotateFrom([G EXCEPT !.downstream_junctions = Put(@, junction, sub_junctions)],
                          junctions, i + 1)

_compute_junction_hierarchy(G) == AnnotateFrom(G, junction_nodes(G), 1)

\* load_sample_data of gui.py; harness_analyzer.py builds the 7-node graph
\* without the annotation, which none of its operations reads.
load_sample_data(include_sub_junctions) ==
    LET n == IF include_sub_junctions THEN 11 ELSE 7
    IN  _compute_junction_hierarchy(
            [nodes |-> [i \in 1..n |-> i],
             type  |-> [i \in 1..n |-> SampleTypes[i]],
             edges |-> IF include_sub_junctions THEN SampleEdges \o SubJunctionEdges
                       ELSE SampleEdges,
             downstream_junctions |-> <<>>])

SampleGraph == load_sample_data(FALSE)
SampleGraphSub == load_sample_data(TRUE)

\* Generated graphs on the nodes 1..n, added first, then up to m edges
\* between distinct nodes, no pair twice; node types from types and edge data
\* dicts from kinds.  The edges are inserted in any order, or (anyOrder
\* false) in the sorted order of their pairs only.
Pairs(n) == {p \in (1..n) \X (1..n) : p[1] < p[2]}

PairBefore(p, q) == p[1] < q[1] \/ (p[1] = q[1] /\ p[2] < q[2])

EdgeLists(n, m, kinds, anyOrder) ==
    LET choice == Pairs(n) \X kinds
        lists == UNION {[1..k -> choice] : k \in 0..m}
        allowed(l) == \A i, j \in 1..Len(l) :
                          i < j => /\ l[i][1] # l[j][1]
                                   /\ anyOrder \/ PairBefore(l[i][1], l[j][1])
    IN  { [i \in 1..Len(l) |->
              Edge(l[i][1][1], l[i][1][2], l[i][2].gauge, l[i][2].length, l[i][2].signals)]
          : l \in {l \in lists : allowed(l)} }

Graphs(n, m, types, kinds, anyOrder) ==
    { [nodes |-> [i \in 1..n |-> i], type |-> t, edges |-> es,
       downstream_junctions |-> <<>>]
      : t \in [1..n -> types], es \in EdgeLists(n, m, kinds, anyOrder) }

\* The data dicts drawn for an edge: a signal list of length 2, 1 and 0 and a
\* missing one; an in-table, an unknown and a missing gauge; lengths 0 to 2 m.
PlainEdge == [gauge |-> 18, length |-> 5, signals |-> 2]

EdgeKinds ==
    { PlainEdge,
      [gauge |-> Absent, length |-> 12, signals |-> 1],
      [gauge |-> 12,     length |-> 0,  signals |-> 0],
      [gauge |-> 22,     length |-> 20, signals |-> Absent] }

\* Every topology within the bounds, plain edges inserted in sorted order.
TopologyGraphs ==
    UNION { Graphs(n, MaxEdges, {"junction", "sensor"}, {PlainEdge}, FALSE)
            : n \in 0..NumNodes }

\* Every three-node harness of plain edges, inserted in every order, with
\* every choice among the three kinds of node.
OrderGraphs == Graphs(3, 3, {"junction", "sub_junction", "sensor"}, {PlainEdge}, TRUE)

\* Every three-node harness with every choice of edge data, edges inserted in
\* sorted order.
AttributeGraphs == Graphs(3, 3, {"junction", "sensor"}, EdgeKinds, FALSE)

\* Every three-node harness in which an edge may have a negative length.
NegativeEdge == [gauge |-> 20, length |-> -3, signals |-> 1]

NegativeGraphs == Graphs(3, 3, {"sensor"}, {PlainEdge, NegativeEdge}, FALSE)

\* A name that is no node of the graph.
MissingNode(G) == Len(G.nodes) + 1

NoResult == [op |-> "none"]

Init ==
    /\ harness_graph \in {SampleGraph, SampleGraphSub} \cup TopologyGraphs
                             \cup OrderGraphs \cup AttributeGraphs
                             \cup NegativeGraphs
    /\ pc = "idle"
    /\ segment_diameters = <<>>
    /\ space_utilization = <<>>
    /\ junction_order = <<>>
    /\ idx = 0
    /\ result = NoResult

\* The analyzer is single-threaded: a call starts when no call is running and
\* the caller has taken the previous result.
Idle == pc = "idle" /\ result = NoResult

Locals == <<segment_diameters, space_utilization, junction_order, idx>>

(***************************************************************************)
(* The operations.                                                          *)
(***************************************************************************)
GetDownstreamEdges(node) ==
    /\ Idle
    /\ result' = [op |-> "get_downstream_edges", node |-> node,
                  edges |-> get_downstream_edges(harness_graph, node)]
    /\ UNCHANGED <<harness_graph, pc, Locals>>

\* estimate_bundle_diameter(consider_hierarchy=True) up to the junction loop.
EstimateStart ==
    /\ Idle
    /\ pc' = "junctions"
    /\ segment_diameters' = BaseDiameters(harness_graph)
    /\ space_utilization' = <<>>
    /\ junction_order' = SortedFrom(harness_graph, junction_nodes(harness_graph),
                                    Len(junction_nodes(harness_graph)))
    /\ idx' = 1
    /\ result' = NoResult
    /\ harness_graph' = GraphAfterEstimate(harness_graph)

\* One junction of the loop.
ProcessJunction ==
    /\ pc = "junctions"
    /\ idx <= Len(junction_order)
    /\ LET m == JunctionStep(harness_graph,
                             [sd |-> segment_diameters, su |-> space_utilization],
                             junction_order[idx])
       IN  /\ segment_diameters' = m.sd
           /\ space_utilization' = m.su
    /\ idx' = idx + 1
    /\ UNCHANGED <<harness_graph, pc, junction_order, result>>

\* The end of the loop: the default utilization and the return.
EstimateReturn ==
    /\ pc = "junctions"
    /\ idx > Len(junction_order)
    /\ LET m == WithDefaultUtilization([sd |-> segment_diameters,
                                        su |-> space_utilization])
       IN  result' = [op |-> "estimate_bundle_diameter",
                      diameters |-> m.sd, utilization |-> m.su]
    /\ pc' = "idle"
    /\ segment_diameters' = <<>>
    /\ space_utilization' = <<>>
    /\ junction_order' = <<>>
    /\ idx' = 0
    /\ UNCHANGED harness_graph

\* estimate_bundle_diameter(consider_hierarchy=False).
EstimateFlat ==
    /\ Idle
    /\ result' = [op |-> "estimate_bundle_diameter_flat",
                  diameters |-> BaseDiameters(harness_graph)]
    /\ harness_graph' = GraphAfterEstimate(harness_graph)
    /\ UNCHANGED <<pc, Locals>>

FindOptimalPath(source, target) ==
    /\ Idle
    /\ result' = [op |-> "find_optimal_path", source |-> source, target |-> target,
                  ret |-> find_optimal_path(harness_graph, source, target, "length")]
    /\ UNCHANGED <<harness_graph, pc, Locals>>

\* The path arguments tried: no path, the paths find_optimal_path returns,
\* a pair of nodes that may be no edge, and a pair with a missing node.
PathInputs(G) ==
    LET found == {find_optimal_path(G, s, t, "length") : s, t \in Range(G.nodes)}
    IN  {<<>>} \cup {r.path : r \in {f \in found : f.kind = "ok"}}
               \cup {<<a, b>> : a, b \in Range(G.nodes) \cup {MissingNode(G)}}

EstimatePathDiameter(path) ==
    /\ Idle
    /\ path # <<>>
    /\ result' = [op |-> "estimate_bundle_diameter_path", path |-> path,
                  ret |-> estimate_bundle_diameter_path(harness_graph, path)]
    /\ UNCHANGED <<harness_graph, pc, Locals>>

EstimateComplexity(path) ==
    /\ Idle
    /\ result' = [op |-> "estimate_installation_complexity", path |-> path,
                  ret |-> estimate_installation_complexity(harness_graph, path)]
    /\ harness_graph' = IF path = <<>> THEN GraphAfterEstimate(harness_graph)
                                       ELSE harness_graph
    /\ UNCHANGED <<pc, Locals>>

SimpleEstimateComplexity(path) ==
    /\ Idle
    /\ result' = [op |-> "simple_estimate_installation_complexity", path |-> path,
                  ret |-> simple_estimate_installation_complexity(harness_graph, path)]
    /\ harness_graph' = IF path = <<>> THEN GraphAfterEstimate(harness_graph)
                                       ELSE harness_graph
    /\ UNCHANGED <<pc, Locals>>

CalculateTotalLength ==
    /\ Idle
    /\ result' = [op |-> "calculate_total_length",
                  ret |-> calculate_total_length(harness_graph)]
    /\ UNCHANGED <<harness_graph, pc, Locals>>

GenerateReport(include_utilization) ==
    /\ Idle
    /\ result' = [op |-> "generate_report", include_utilization |-> include_utilization,
                  ret |-> generate_report(harness_graph, include_utilization)]
    /\ harness_graph' = GraphAfterEstimate(harness_graph)
    /\ UNCHANGED <<pc, Locals>>

SimpleGenerateReport ==
    /\ Idle
    /\ result' = [op |-> "simple_generate_report",
                  ret |-> simple_generate_report(harness_graph)]
    /\ harness_graph' = GraphAfterEstimate(harness_graph)
    /\ UNCHANGED <<pc, Locals>>

\* The hierarchy-annotation pass, the one operation that writes to the graph.
ComputeJunctionHierarchy ==
    /\ Idle
    /\ harness_graph' = _compute_junction_hierarchy(harness_graph)
    /\ result' = [op |-> "_compute_junction_hierarchy"]
    /\ UNCHANGED <<pc, Locals>>

\* The caller (the show_* handlers of WireHarnessApp) takes the result.
TakeResult ==
    /\ pc = "idle"
    /\ result # NoResult
    /\ result' = NoResult
    /\ UNCHANGED <<harness_graph, pc, Locals>>

Next ==
    \/ \E node \in Range(harness_graph.nodes) : GetDownstreamEdges(node)
    \/ EstimateStart
    \/ ProcessJunction
    \/ EstimateReturn
    \/ EstimateFlat
    \/ /\ Idle
       /\ \E source, target \in Range(harness_graph.nodes) \cup {MissingNode(harness_graph)} :
              FindOptimalPath(source, target)
    \/ /\ Idle
       /\ \E path \in PathInputs(harness_graph) :
              \/ EstimatePathDiameter(path)
              \/ EstimateComplexity(path)
              \/ SimpleEstimateComplexity(path)
    \/ CalculateTotalLength
    \/ \E include_utilization \in BOOLEAN : GenerateReport(include_utilization)
    \/ SimpleGenerateReport
    \/ ComputeJunctionHierarchy
    \/ TakeResult

Spec == Init /\ [][Next]_vars

(***************************************************************************)
(* Properties.                                                              *)
(***************************************************************************)
HierarchyReturned == result.op = "estimate_bundle_diameter"
PathReturned == result.op = "find_optimal_path"

\* The base diameter of the edge a key names: signal count times the area of
\* one wire.
BaseOf(G, k) == segment_area(EdgeData(G, k[1], k[2]))

\* The keys of the edges some junction step has updated: an update writes both
\* direction keys, and the base loop only the key of harness_graph.edges().
Updated(G, diameters) ==
    {k \in Range(EdgesView(G)) : <<k[2], k[1]>> \in DOMAIN diameters}

\* C1: on the sample harness the trunk segment ECU-Junction1, which feeds
\* Junction1 and everything behind it, is reported with a diameter strictly
\* larger than its base diameter.
C1_TrunkCarriesDownstream ==
    (harness_graph = SampleGraph /\ HierarchyReturned)
        => result.diameters[<<ECU, Junction1>>] > BaseOf(SampleGraph, <<ECU, Junction1>>)

\* C2: hierarchical aggregation is monotonic: after every junction step, and
\* in the returned map, the diameter under any key of an edge is at least the
\* edge's base diameter.
C2_Monotonic ==
    /\ pc = "junctions" =>
           \A k \in DOMAIN segment_diameters :
               segment_diameters[k] >= BaseOf(harness_graph, k)
    /\ HierarchyReturned =>
           \A k \in DOMAIN result.diameters :
               result.diameters[k] >= BaseOf(harness_graph, k)

\* C2 witness: a returned map in which an edge was aggregated to a diameter
\* strictly above its base diameter.
C2_Witness ==
    /\ HierarchyReturned
    /\ \E k \in DOMAIN result.diameters :
           result.diameters[k] > BaseOf(harness_graph, k)

\* C3: every value of the returned utilization map is strictly greater than
\* 0 and at most 100.
C3_UtilizationRange ==
    HierarchyReturned =>
        \A k \in DOMAIN result.utilization :
            /\ result.utilization[k].num > 0
            /\ result.utilization[k].num <= 100 * result.utilization[k].den

\* C4: in the returned utilization map every edge no junction step updated
\* has utilization exactly 100, and only such edges have utilization 100.
C4_UntouchedIsFull ==
    HierarchyReturned =>
        \A k \in Range(EdgesView(harness_graph)) :
            LET touched == k \in Updated(harness_graph, result.diameters)
                full == /\ k \in DOMAIN result.utilization
                        /\ result.utilization[k].num = 100 * result.utilization[k].den
            IN  touched <=> ~full

\* The least total weight of a walk from source to each node, by n rounds of
\* relaxation over all edges; Unreachable stands for no walk.
Unreachable(G) == calculate_total_length(G) + 1

Least(S) == CHOOSE x \in S : \A y \in S : x <= y

\* One round: every node takes the least of its weight and its neighbours'
\* weights plus the edge between.
RECURSIVE RelaxRound(_, _, _)
RelaxRound(G, prev, i) ==
    IF i > Len(G.nodes) THEN <<>>
    ELSE LET n == G.nodes[i]
             via == { prev[m] + EdgeData(G, m, n).length
                      : m \in {m \in Range(Neighbors(G, n)) : prev[m] < Unreachable(G)} }
         IN  Put(RelaxRound(G, prev, i + 1), n, Least({prev[n]} \cup via))

RECURSIVE StartWeights(_, _, _)
StartWeights(G, source, i) ==
    IF i > Len(G.nodes) THEN <<>>
    ELSE Put(StartWeights(G, source, i + 1), G.nodes[i],
             IF G.nodes[i] = source THEN 0 ELSE Unreachable(G))

RECURSIVE LeastWalk(_, _, _)
LeastWalk(G, source, rounds) ==
    IF rounds = 0 THEN StartWeights(G, source, 1)
    ELSE RelaxRound(G, LeastWalk(G, source, rounds - 1), 1)

LeastWeight(G, source, target) == LeastWalk(G, source, Len(G.nodes))[target]

Connected(G, source, target) == LeastWeight(G, source, target) < Unreachable(G)

NonNegativeLengths(G) == \A i \in 1..Len(G.edges) : G.edges[i].length >= 0

IsPath(G, path, source, target) ==
    /\ Len(path) >= 1
    /\ path[1] = source
    /\ path[Len(path)] = target
    /\ \A i \in 1..(Len(path) - 1) : has_edge(G, path[i], path[i + 1])

\* C5: with non-negative lengths and a connected pair, find_optimal_path
\* returns a path from source to target along edges, the sum of the lengths
\* along it as total weight, and no path of the graph weighs less.
C5_ShortestPath ==
    ( /\ PathReturned
      /\ NonNegativeLengths(harness_graph)
      /\ result.source \in Range(harness_graph.nodes)
      /\ result.target \in Range(harness_graph.nodes)
      /\ Connected(harness_graph, result.source, result.target) )
    => /\ result.ret.kind = "ok"
       /\ IsPath(harness_graph, result.ret.path, result.source, result.target)
       /\ result.ret.length = PathLengthFrom(harness_graph, result.ret.path, 1)
       /\ result.ret.length = LeastWeight(harness_graph, result.source, result.target)

\* C5 witness: a returned path that goes around a direct, longer edge between
\* source and target.
C5_Witness ==
    /\ PathReturned
    /\ result.ret.kind = "ok"
    /\ Len(result.ret.path) = 3
    /\ has_edge(harness_graph, result.source, result.target)
    /\ EdgeData(harness_graph, result.source, result.target).length > result.ret.length

\* C6: for two nodes of the graph in different components find_optimal_path
\* returns (None, inf) and raises nothing (the lengths being those of the
\* data model, none negative).
C6_DisconnectedNoPath ==
    ( /\ PathReturned
      /\ NonNegativeLengths(harness_graph)
      /\ result.source \in Range(harness_graph.nodes)
      /\ result.target \in Range(harness_graph.nodes)
      /\ ~Connected(harness_graph, result.source, result.target) )
    => result.ret = [kind |-> "nopath"]

\* C6 witness: a no-path result for two nodes of a graph that has edges.
C6_Witness ==
    /\ PathReturned
    /\ result.source \in Range(harness_graph.nodes)
    /\ result.target \in Range(harness_graph.nodes)
    /\ harness_graph.edges # <<>>
    /\ result.ret = [kind |-> "nopath"]

\* C7: when source or target is no node of the graph, find_optimal_path
\* returns the no-path result and never ends in an error.
C7_MissingNodeNoPath ==
    ( /\ PathReturned
      /\ \/ result.source \notin Range(harness_graph.nodes)
         \/ result.target \notin Range(harness_graph.nodes) )
    => result.ret = [kind |-> "nopath"]

SampleQuery ==
    /\ harness_graph = SampleGraph
    /\ PathReturned
    /\ result.source = ECU
    /\ result.target = Actuator2

\* C8 as stated: on the sample harness the path ECU to Actuator2 is
\* [ECU, Junction1, Junction2, Actuator2] with total weight 4.5 m.
C8_SamplePathStated ==
    SampleQuery =>
        result.ret = [kind |-> "ok", path |-> <<ECU, Junction1, Junction2, Actuator2>>,
                      length |-> 45]

\* C8 amended: on the sample harness the path ECU to Actuator2 is
\* [ECU, Junction1, Junction2, Actuator2] with total weight 4.6 m
\* (0.5 + 2.0 + 2.1).
C8_SamplePath ==
    SampleQuery =>
        result.ret = [kind |-> "ok", path |-> <<ECU, Junction1, Junction2, Actuator2>>,
                      length |-> 46]

\* C8 witness: the query was answered on the sample harness.
C8_Witness == SampleQuery /\ result.ret.kind = "ok"

\* The nodes reachable from root, by closure over the edges.
RECURSIVE ReachableFrom(_, _)
ReachableFrom(G, S) ==
    LET more == S \cup UNION {Range(Neighbors(G, n)) : n \in S}
    IN  IF more = S THEN S ELSE ReachableFrom(G, more)

\* C9: get_downstream_edges(root) returns edges of the graph, none twice in
\* either orientation, each entering a node not entered before and different
\* from root, none leading back to the node its start was entered from, and
\* as many as there are nodes reachable from root, minus one.
C9_DownstreamEdges ==
    result.op = "get_downstream_edges" =>
        LET L == result.edges
            root == result.node
        IN  /\ \A i \in 1..Len(L) : has_edge(harness_graph, L[i][1], L[i][2])
            /\ \A i, j \in 1..Len(L) :
                   i # j => {L[i][1], L[i][2]} # {L[j][1], L[j][2]}
            /\ \A i \in 1..Len(L) : L[i][2] # root
            /\ \A i, j \in 1..Len(L) : i # j => L[i][2] # L[j][2]
            /\ \A i, j \in 1..Len(L) :
                   L[j][2] = L[i][1] => L[i][2] # L[j][1]
            /\ Len(L) = Cardinality(ReachableFrom(harness_graph, {root})) - 1

\* C9 witness: a traversal of a graph with a cycle, where one edge of the
\* component is left out.
C9_Witness ==
    /\ result.op = "get_downstream_edges"
    /\ Len(result.edges) = 2
    /\ Len(harness_graph.edges) = 3
    /\ Cardinality(ReachableFrom(harness_graph, {result.node})) = 3

ComplexityReturned ==
    result.op \in {"estimate_installation_complexity",
                   "simple_estimate_installation_complexity"}

\* C10: every value estimate_installation_complexity returns lies in
\* [1, 10], in whole-graph mode and in path mode, in both implementations.
C10_ComplexityClamped ==
    (ComplexityReturned /\ result.ret.kind = "ok")
        => /\ result.ret.value >= 10000
           /\ result.ret.value <= 100000

\* C10 witness: a whole-graph score whose formula value is above 10 and that
\* is returned as 10.
C10_Witness ==
    /\ result.op = "estimate_installation_complexity"
    /\ result.path = <<>>
    /\ result.ret.value = 100000
    /\ WholeComplexity(calculate_total_length(harness_graph),
                       MeanDiameter(estimate_bundle_diameter_hierarchy(harness_graph).sd),
                       Len(junction_nodes(harness_graph))) > 100000

\* The mean of the per-segment diameters, each wire segment counted once:
\* one key per edge, the one harness_graph.edges() reports.
MeanPerSegment(G, diameters) ==
    LET once == Range(EdgesView(G))
    IN  IF once = {} THEN 0
        ELSE SumDiameters(diameters, once) \div Cardinality(once)

\* C11: in whole-graph mode both implementations return
\* clamp[1,10](total_length * average_segment_diameter * 0.5 + junction_count * 1.5),
\* the average taken with each segment counted once and junction_count
\* counting the junction and the sub-junction nodes.
C11_WholeGraphFormula ==
    (ComplexityReturned /\ result.path = <<>>)
        => result.ret.value =
               Clamp(WholeComplexity(
                   calculate_total_length(harness_graph),
                   MeanPerSegment(harness_graph,
                                  estimate_bundle_diameter_hierarchy(harness_graph).sd),
                   Len(junction_nodes(harness_graph))))

\* The independent sum of the edge lengths, over the set of edge indices.
RECURSIVE SumOfLengths(_, _)
SumOfLengths(G, indices) ==
    IF indices = {} THEN 0
    ELSE LET i == CHOOSE i \in indices : TRUE
         IN  G.edges[i].length + SumOfLengths(G, indices \ {i})

\* C12: calculate_total_length returns the sum of the length attributes of
\* all edges, each edge once; on the 7-node, 6-edge sample it is 8.3 m.
C12_TotalLength ==
    result.op = "calculate_total_length"
        => /\ result.ret = SumOfLengths(harness_graph, 1..Len(harness_graph.edges))
           /\ harness_graph = SampleGraph => result.ret = 83

\* C12 witness: the total length of the sample harness has been returned.
C12_Witness ==
    /\ result.op = "calculate_total_length"
    /\ harness_graph = SampleGraph
    /\ Len(harness_graph.edges) = 6

ReportKeys ==
    {"Total Components", "Total Connections", "Number of Junctions",
     "Total Wire Length (m)", "Average Bundle Diameter (mm)",
     "Maximum Bundle Diameter (mm)", "Installation Complexity (1-10)"}

UtilizationKeys == {"Average Space Utilization (%)", "Minimum Space Utilization (%)"}

\* C13: on a non-empty graph generate_report returns, for either value of
\* include_utilization, a report with the seven common fields, and the two
\* utilization fields exactly when include_utilization is true.
C13_ReportFields ==
    (result.op = "generate_report" /\ Len(harness_graph.nodes) > 0)
        => /\ result.ret.kind = "ok"
           /\ DOMAIN result.ret.report =
                  ReportKeys \cup (IF result.include_utilization THEN UtilizationKeys
                                                                 ELSE {})

\* C14: on the empty graph no aggregate raises: the total length is 0, the
\* whole-graph estimate is a pair of empty maps, the complexity is 1 and
\* every report has average and maximum diameter 0.
C14_EmptyGraphDefaults ==
    (Len(harness_graph.nodes) = 0 /\ Len(harness_graph.edges) = 0)
        => /\ result.op = "calculate_total_length" => result.ret = 0
           /\ result.op = "estimate_bundle_diameter"
                  => result.diameters = <<>> /\ result.utilization = <<>>
           /\ (ComplexityReturned /\ result.path = <<>>)
                  => result.ret.kind = "ok" /\ result.ret.value = 10000
           /\ result.op \in {"generate_report", "simple_generate_report"}
                  => /\ result.ret.kind = "ok"
                     /\ result.ret.report["Average Bundle Diameter (mm)"] = 0
                     /\ result.ret.report["Maximum Bundle Diameter (mm)"] = 0

\* C15: every operation but _compute_junction_hierarchy leaves the graph as
\* it is (nodes, edges and every attribute, a missing gauge still missing),
\* and _compute_junction_hierarchy writes node attributes only.
C15_GraphUnchanged ==
    [][/\ result'.op # "_compute_junction_hierarchy" => harness_graph' = harness_graph
       /\ harness_graph'.nodes = harness_graph.nodes
       /\ harness_graph'.type = harness_graph.type
       /\ harness_graph'.edges = harness_graph.edges]_vars

\* C15 witness: the whole-graph estimate has returned on a graph that has an
\* edge without gauge.
C15_Witness ==
    /\ HierarchyReturned
    /\ \E i \in 1..Len(harness_graph.edges) : harness_graph.edges[i].gauge = Absent

\* The diameter of one wire of an edge as stated: the table value, 0.8 mm for
\* a gauge that is not in the table, 0.81 mm (20 AWG) for a missing gauge.
StatedWireDiameter(e) ==
    IF e.gauge = Absent THEN 81
    ELSE IF e.gauge \in {16, 18, 20, 22, 24} THEN gauge_to_diameter[e.gauge]
    ELSE 80

RECURSIVE StatedPathArea(_, _, _)
StatedPathArea(G, path, i) ==
    IF i >= Len(path) THEN 0
    ELSE (IF has_edge(G, path[i], path[i + 1])
          THEN StatedWireDiameter(EdgeData(G, path[i], path[i + 1]))
               * StatedWireDiameter(EdgeData(G, path[i], path[i + 1]))
          ELSE 0)
         + StatedPathArea(G, path, i + 1)

\* C16: no edge's gauge makes the diameter estimate fail: whole-graph mode
\* and path mode give an unknown gauge 0.8 mm and a missing gauge 0.81 mm.
C16_GaugeNeverFails ==
    /\ result.op = "estimate_bundle_diameter_flat"
           => \A k \in DOMAIN result.diameters :
                  LET e == EdgeData(harness_graph, k[1], k[2])
                  IN  result.diameters[k]
                          = num_signals(e) * StatedWireDiameter(e) * StatedWireDiameter(e)
    /\ result.op = "estimate_bundle_diameter_path"
           => /\ result.ret.kind = "ok"
              /\ result.ret.value = StatedPathArea(harness_graph, result.path, 1)

HasNegativeLength(G) == \E i \in 1..Len(G.edges) : G.edges[i].length < 0

\* C17: when the graph has an edge of negative weight, find_optimal_path
\* ends in an error and returns no path and weight.
C17_NegativeWeightRejected ==
    (PathReturned /\ HasNegativeLength(harness_graph)) => result.ret.kind = "raise"

\* The current area of the edge between a and b, under whichever key its
\* diameter is stored.
CurrentArea(sd, a, b) == AreaOfStored(Get(sd, <<a, b>>, Get(sd, <<b, a>>, 0)))

RECURSIVE SumCurrentAreas(_, _, _)
SumCurrentAreas(sd, downstream_edges, i) ==
    IF i > Len(downstream_edges) THEN 0
    ELSE CurrentArea(sd, downstream_edges[i][1], downstream_edges[i][2])
         + SumCurrentAreas(sd, downstream_edges, i + 1)

\* C18: the total downstream area used for the junction about to be
\* processed is the sum of the current areas of all edges of
\* get_downstream_edges(junction), in whichever orientation they are reported.
C18_DownstreamAreaComplete ==
    (pc = "junctions" /\ idx <= Len(junction_order))
        => LET downstream_edges == get_downstream_edges(harness_graph, junction_order[idx])
           IN  total_downstream_area(segment_diameters, downstream_edges)
                   = SumCurrentAreas(segment_diameters, downstream_edges, 1)

\* C19: once a junction has been processed, the processing of a later junction
\* of the order changes the diameter of no edge of its downstream-edge list.
C19_DownstreamFinalizedFirst ==
    [][(pc = "junctions" /\ pc' = "junctions")
           => \A n \in 1..(idx - 1) :
                  LET finalized == get_downstream_edges(harness_graph, junction_order[n])
                  IN  \A i \in 1..Len(finalized) :
                          CurrentArea(segment_diameters', finalized[i][1], finalized[i][2])
                              = CurrentArea(segment_diameters, finalized[i][1], finalized[i][2])
      ]_vars

RECURSIVE GCD(_, _)
GCD(a, b) == IF b = 0 THEN a ELSE GCD(b, a % b)

\* A fraction in lowest terms.
Lowest(f) == LET g == GCD(f.num, f.den) IN [num |-> f.num \div g, den |-> f.den \div g]

\* C20: a utilization in the returned map is the edge's own base area (signal
\* count times the area of one wire) over the edge's final total area, times
\* 100, and it is the same under both direction keys of the edge.
C20_UtilizationOfOwnBase ==
    HierarchyReturned
        => \A k \in DOMAIN result.utilization :
               /\ result.diameters[k] > 0
                      => Lowest(result.utilization[k])
                             = Lowest([num |-> 100 * BaseOf(harness_graph, k),
                                       den |-> result.diameters[k]])
               /\ <<k[2], k[1]>> \in DOMAIN result.utilization
                      => result.utilization[<<k[2], k[1]>>] = result.utilization[k]

\* The incoming edges of the junction that are not downstream of it and
\* whose total area (own current area plus the junction's downstream area)
\* is zero under the diameters sd.
ZeroAreaEdges(G, sd, junction) ==
    LET downstream_edges == get_downstream_edges(G, junction)
        downstream_area == total_downstream_area(sd, downstream_edges)
    IN  {e \in Range(incoming_edges(G, junction)) :
            /\ ~is_downstream(e, downstream_edges)
            /\ CurrentArea(sd, e[1], e[2]) + downstream_area = 0}

\* The entry of the map d under the key k: whether there is one, and its value.
Entry(d, k) == IF k \in DOMAIN d THEN <<TRUE, d[k]>> ELSE <<FALSE, 0>>

\* C21: a junction step writes and changes no diameter entry and no
\* utilization entry of a non-downstream edge whose total area is zero, and
\* every diameter entry a junction step writes or changes is above zero.
C21_ZeroAreaSkipped ==
    [][(pc = "junctions" /\ pc' = "junctions")
           => /\ \A e \in ZeroAreaEdges(harness_graph, segment_diameters,
                                        junction_order[idx]) :
                     \A k \in {e, <<e[2], e[1]>>} :
                         /\ Entry(segment_diameters', k) = Entry(segment_diameters, k)
                         /\ Entry(space_utilization', k) = Entry(space_utilization, k)
              /\ \A k \in DOMAIN segment_diameters' :
                     Entry(segment_diameters', k) # Entry(segment_diameters, k)
                         => segment_diameters'[k] > 0
      ]_vars

\* C21 witness: the junction just processed has a non-downstream edge of total
\* area zero (the step has left the edge and the junction's downstream edges
\* as they were).
C21_Witness ==
    /\ pc = "junctions"
    /\ idx > 1
    /\ ZeroAreaEdges(harness_graph, segment_diameters, junction_order[idx - 1]) # {}

\* The graph without the edge between a and b.
WithoutEdge(G, a, b) ==
    [G EXCEPT !.edges = SelectSeq(@, LAMBDA e : ~({e.u, e.v} = {a, b}))]

\* The edge between a and b lies on a cycle: b is reached from a without it.
OnCycle(G, a, b) == b \in ReachableFrom(WithoutEdge(G, a, b), {a})

\* A tree or a forest.
Acyclic(G) == \A i \in 1..Len(G.edges) : ~OnCycle(G, G.edges[i].u, G.edges[i].v)

\* C22: on an acyclic harness the downstream edges of a junction contain all
\* its incident edges and the hierarchical mode returns the per-segment
\* diameters of the non-hierarchical mode, with utilization 100 for every
\* edge; on any harness a diameter that aggregation has written or changed
\* belongs to an edge at a junction that lies on a cycle.
C22_AcyclicIsFlat ==
    /\ ( /\ result.op = "get_downstream_edges"
         /\ IsJunction(harness_graph, result.node)
         /\ Acyclic(harness_graph) )
           => \A e \in Range(incoming_edges(harness_graph, result.node)) :
                  e \in Range(result.edges) \/ <<e[2], e[1]>> \in Range(result.edges)
    /\ (HierarchyReturned /\ Acyclic(harness_graph))
           => /\ result.diameters = BaseDiameters(harness_graph)
              /\ DOMAIN result.utilization = DOMAIN result.diameters
              /\ \A k \in DOMAIN result.utilization :
                     result.utilization[k] = FullUtilization
    /\ HierarchyReturned
           => \A k \in DOMAIN result.diameters :
                  Entry(result.diameters, k) # Entry(BaseDiameters(harness_graph), k)
                      => /\ OnCycle(harness_graph, k[1], k[2])
                         /\ IsJunction(harness_graph, k[1]) \/ IsJunction(harness_graph, k[2])

\* C22 witness: the hierarchical estimate of the sample harness with
\* sub-junctions, a tree with four junctions, has returned.
C22_Witness ==
    /\ HierarchyReturned
    /\ harness_graph = SampleGraphSub
    /\ Acyclic(harness_graph)
    /\ Len(junction_nodes(harness_graph)) = 4

====
